---- MODULE Spec2Model ----
(***************************************************************************)
(* A model of transcription_core.py of whisper-voice-transcription: the    *)
(* format normalisation, the device selector, the timestamp formatter, the *)
(* format writers and the transcription job orchestrator                   *)
(* transcribe_audio_core.                                                  *)
(*                                                                         *)
(* Python strings are sequences of one-character strings, so that strip,   *)
(* split, lower and the path functions are computed character by           *)
(* character.  Python's None is the value None below.                      *)
(***************************************************************************)
EXTENDS Integers, Sequences, FiniteSets, TLC

(***************************************************************************)
(* Strings                                                                 *)
(***************************************************************************)

\* Python's None: a sequence no string is equal to (its one element is not a
\* character).
None == <<"<None>">>

UpperLetters == <<"A", "B", "C", "D", "E", "F", "G", "H", "I", "J", "K", "L", "M",
                  "N", "O", "P", "Q", "R", "S", "T", "U", "V", "W", "X", "Y", "Z">>

LowerLetters == <<"a", "b", "c", "d", "e", "f", "g", "h", "i", "j", "k", "l", "m",
                  "n", "o", "p", "q", "r", "s", "t", "u", "v", "w", "x", "y", "z">>

\* str.lower() on one character.
LowerChar(c) ==
    IF \E i \in 1..26 : UpperLetters[i] = c
    THEN LowerLetters[CHOOSE i \in 1..26 : UpperLetters[i] = c]
    ELSE c

\* str.lower()
Lower(s) == [i \in 1..Len(s) |-> LowerChar(s[i])]

\* The characters str.strip() removes, among those the inputs are made of.
Whitespace == {" ", "\t", "\n", "\r"}

RECURSIVE LStrip(_)
LStrip(s) ==
    IF s # <<>> /\ Head(s) \in Whitespace THEN LStrip(Tail(s)) ELSE s

RECURSIVE RStrip(_)
RStrip(s) ==
    IF s # <<>> /\ s[Len(s)] \in Whitespace
    THEN RStrip(SubSeq(s, 1, Len(s) - 1))
    ELSE s

\* str.strip()
Strip(s) == RStrip(LStrip(s))

\* str.split(sep) for a one-character separator: the pieces between the
\* separators, the empty ones included; "".split(",") is [""].
RECURSIVE SplitAcc(_, _, _)
SplitAcc(s, sep, cur) ==
    IF s = <<>> THEN <<cur>>
    ELSE IF Head(s) = sep THEN <<cur>> \o SplitAcc(Tail(s), sep, <<>>)
    ELSE SplitAcc(Tail(s), sep, Append(cur, Head(s)))

Split(s, sep) == SplitAcc(s, sep, <<>>)

\* [f(x) for x in xs if p(x)] for the two comprehensions of the normalisation.
RECURSIVE SelectSeq2(_, _)
SelectSeq2(xs, keep) ==
    IF xs = <<>> THEN <<>>
    ELSE IF Head(xs) \in keep THEN <<Head(xs)>> \o SelectSeq2(Tail(xs), keep)
    ELSE SelectSeq2(Tail(xs), keep)

\* Python truthiness of an optional string or list: None and the empty
\* sequence are false.
Truthy(x) == x # None /\ x # <<>>

\* a or b
PyOr_NoneOnly(a, b) == IF a = None THEN b ELSE a

PyOr(a, b) == IF Truthy(a) THEN a ELSE b

(***************************************************************************)
(* String constants of the program                                         *)
(***************************************************************************)

S_srt == <<"s", "r", "t">>
S_tsv == <<"t", "s", "v">>
S_txt == <<"t", "x", "t">>
S_vtt == <<"v", "t", "t">>
S_json == <<"j", "s", "o", "n">>
S_cuda == <<"c", "u", "d", "a">>
S_cpu == <<"c", "p", "u">>
S_auto == <<"a", "u", "t", "o">>

\* SUPPORTED_FORMATS = ["srt", "tsv", "txt", "vtt", "json"]
SUPPORTED_FORMATS == <<S_srt, S_tsv, S_txt, S_vtt, S_json>>

SupportedSet == {SUPPORTED_FORMATS[i] : i \in 1..Len(SUPPORTED_FORMATS)}

(***************************************************************************)
(* Format normalisation (transcribe_audio_core, lines 150-153)             *)
(*                                                                         *)
(* The formats argument is a tagged value: [t |-> "str", v |-> chars] for  *)
(* a string, [t |-> "list", v |-> sequence of strings] for a list.         *)
(***************************************************************************)

FmtStr(s) == [t |-> "str", v |-> s]
FmtList(l) == [t |-> "list", v |-> l]
FmtNone == [t |-> "none", v |-> <<>>]

\* if isinstance(formats, str): formats = [f.strip() for f in formats.split(",")]
SplitIfStr(formats) ==
    IF formats.t = "str"
    THEN LET parts == Split(formats.v, ",")
         IN  [i \in 1..Len(parts) |-> Strip(parts[i])]
    ELSE formats.v

\* The bug of folding case before the membership test.
NormalizeFormats_CaseFold(formats) ==
    LET l == SplitIfStr(formats)
        lowered == [i \in 1..Len(l) |-> Lower(Strip(l[i]))]
    IN  SelectSeq2(lowered, SupportedSet)

\* formats = [f.strip() for f in formats if f.strip() in SUPPORTED_FORMATS]
NormalizeFormats(formats) ==
    LET l == SplitIfStr(formats)
        stripped == [i \in 1..Len(l) |-> Strip(l[i])]
    IN  SelectSeq2(stripped, SupportedSet)

(***************************************************************************)
(* Device selector                                                         *)
(***************************************************************************)

\* The bug of trusting the "cuda" preference without asking the hardware.
get_device_TrustCuda(preferred_device, cuda_is_available) ==
    IF Truthy(preferred_device) /\ Lower(preferred_device) # S_auto
    THEN IF Lower(preferred_device) = S_cuda THEN S_cuda ELSE S_cpu
    ELSE IF cuda_is_available THEN S_cuda ELSE S_cpu

\* The bug of auto-detecting for every preference that is not cuda or cpu.
get_device_AutoElse(preferred_device, cuda_is_available) ==
    IF Truthy(preferred_device) /\ Lower(preferred_device) = S_cpu
    THEN S_cpu
    ELSE IF Truthy(preferred_device) /\ Lower(preferred_device) = S_cuda
              /\ ~cuda_is_available
    THEN S_cpu
    ELSE IF cuda_is_available THEN S_cuda ELSE S_cpu

\* get_device(preferred_device): torch.cuda.is_available() is the second
\* parameter.
get_device(preferred_device, cuda_is_available) ==
    IF Truthy(preferred_device) /\ Lower(preferred_device) # S_auto
    THEN IF Lower(preferred_device) = S_cuda /\ cuda_is_available THEN S_cuda
         ELSE IF Lower(preferred_device) = S_cpu THEN S_cpu
         ELSE S_cpu
    ELSE IF cuda_is_available THEN S_cuda ELSE S_cpu

(***************************************************************************)
(* Paths                                                                   *)
(***************************************************************************)

S_outputs == <<"o", "u", "t", "p", "u", "t", "s">>

\* The largest index of s holding c, 0 when there is none.
LastIndexOf(s, c) ==
    IF \E i \in 1..Len(s) : s[i] = c
    THEN CHOOSE i \in 1..Len(s) : s[i] = c /\ \A j \in (i + 1)..Len(s) : s[j] # c
    ELSE 0

\* os.path.basename (POSIX): what follows the last "/".
Basename(p) == SubSeq(p, LastIndexOf(p, "/") + 1, Len(p))

\* os.path.splitext(name)[0] for a name without "/": the name up to its last
\* dot, unless only dots precede that dot.
SplitextRoot(name) ==
    LET d == LastIndexOf(name, ".")
    IN  IF d > 0 /\ \E j \in 1..(d - 1) : name[j] # "."
        THEN SubSeq(name, 1, d - 1)
        ELSE name

\* The bug of cutting the name at its first dot.
BaseName_FirstDot(audio_path) ==
    LET name == Basename(audio_path)
    IN  IF \E i \in 1..Len(name) : name[i] = "."
        THEN SubSeq(name, 1, (CHOOSE i \in 1..Len(name) :
                                 name[i] = "." /\ \A j \in 1..(i - 1) : name[j] # ".") - 1)
        ELSE name

\* base = os.path.splitext(os.path.basename(audio_path))[0]
BaseName(audio_path) == SplitextRoot(Basename(audio_path))

(***************************************************************************)
(* The clock and the output directory                                      *)
(***************************************************************************)

\* The clock counts ticks; TicksPerSecond of them make one second.
TicksPerSecond == 2

\* The last tick of the model's clock.
MaxTick == 4

\* datetime.now().strftime("%Y%m%d_%H%M%S"): the instant cut to whole seconds.
Timestamp(t) == t \div TicksPerSecond

\* output_dir = os.path.join("outputs", timestamp)
OutputDirAt(t) == [root |-> S_outputs, stamp |-> Timestamp(t)]

\* out_path = os.path.join(output_dir, f"{base}.{fmt}")
OutPath(output_dir, base, fmt) == [dir |-> output_dir, name |-> base \o <<".">> \o fmt]

(***************************************************************************)
(* State                                                                   *)
(***************************************************************************)

VARIABLES
    pc,              \* position of the call of transcribe_audio_core
    call,            \* the arguments the call was made with
    model_name,      \* the parameters, as the code rebinds them
    language,
    task,
    formats,
    device,
    model,           \* the loaded model
    segments,        \* result["segments"]
    result_language, \* result.get("language")
    output_dir,
    output_files,
    result,          \* the returned dict
    err,             \* the exception the call raised
    trace,           \* the external operations the call has made, in order
    ffmpeg_status,   \* what running "ffmpeg -version" does on this machine
    cuda_available,  \* torch.cuda.is_available()
    environ,         \* the WHISPER_* environment variables
    audio_files,     \* the audio files that exist
    now,             \* the clock, in ticks
    fs_dirs,         \* the directories under outputs/
    fs_files,        \* the files under outputs/: path -> content
    job_dir,         \* per job, the output directory it obtained
    uploads,         \* per web handler, its call of save_audio_to_inputs
    fn, arg, ret     \* a pure function, its input and its result

vars == <<pc, call, model_name, language, task, formats, device, model, segments,
          result_language, output_dir, output_files, result, err, trace,
          ffmpeg_status, cuda_available, environ, audio_files, now, fs_dirs,
          fs_files, job_dir, uploads, fn, arg, ret>>

jobVars == <<pc, call, model_name, language, task, formats, device, model, segments,
             result_language, output_dir, output_files, result, err, trace>>

envVars == <<ffmpeg_status, cuda_available, environ, audio_files>>

fsVars == <<now, fs_dirs, fs_files>>

pureVars == <<fn, arg, ret>>

(***************************************************************************)
(* More string constants, and the inputs                                   *)
(***************************************************************************)

S_small_en == <<"s", "m", "a", "l", "l", ".", "e", "n">>
S_transcribe == <<"t", "r", "a", "n", "s", "c", "r", "i", "b", "e">>
S_translate == <<"t", "r", "a", "n", "s", "l", "a", "t", "e">>
S_Auto_Detect == <<"A", "u", "t", "o", " ", "D", "e", "t", "e", "c", "t">>
S_tiny == <<"t", "i", "n", "y">>
S_en == <<"e", "n">>
S_bogus == <<"b", "o", "g", "u", "s">>
S_mps == <<"m", "p", "s">>
S_CUDA == <<"C", "U", "D", "A">>

P_inputs_a_mp3 == <<"i", "n", "p", "u", "t", "s", "/", "a", ".", "m", "p", "3">>
P_talk_v2_wav == <<"t", "a", "l", "k", ".", "v", "2", ".", "w", "a", "v">>
P_inputs_gone_m4a == <<"i", "n", "p", "u", "t", "s", "/", "g", "o", "n", "e", ".", "m", "4", "a">>

Ex_SRT_bogus_txt == <<"S", "R", "T", ",", " ", "b", "o", "g", "u", "s", " ", ",", "t", "x", "t">>
Ex_srt_bogus_txt == <<"s", "r", "t", ",", " ", "b", "o", "g", "u", "s", " ", ",", "t", "x", "t">>
Ex_bogus_other == <<"b", "o", "g", "u", "s", ",", "o", "t", "h", "e", "r">>
Ex_txt_json == <<"t", "x", "t", ",", "j", "s", "o", "n">>
Ex_srt_vtt == <<"s", "r", "t", ",", "v", "t", "t">>

\* The audio files on disk, and the paths a call may name.
AudioOnDisk == {P_inputs_a_mp3, P_talk_v2_wav}

\* The formats a call may ask for: nothing, a comma-separated string (the
\* command line), a list (the web interface's checkboxes).
FormatArgs ==
    { FmtNone,
      FmtStr(Ex_SRT_bogus_txt),
      FmtStr(Ex_srt_bogus_txt),
      FmtStr(Ex_bogus_other),
      FmtStr(Ex_txt_json),
      FmtList(<<S_json, S_bogus, S_txt, S_json>>) }

DeviceArgs == {None, S_CUDA, <<"C", "p", "u">>, S_mps, S_auto}

\* model_name, language and task of a call.
OtherArgs ==
    { [model_name |-> None, language |-> None, task |-> None],
      [model_name |-> S_tiny, language |-> S_Auto_Detect, task |-> S_translate],
      [model_name |-> S_tiny, language |-> S_en, task |-> None],
      [model_name |-> <<>>, language |-> <<>>, task |-> <<>>] }

Calls ==
    { [audio_path |-> a, model_name |-> o.model_name, language |-> o.language,
       task |-> o.task, formats |-> f, device |-> d] :
        a \in AudioOnDisk \cup {P_inputs_gone_m4a}, o \in OtherArgs, f \in FormatArgs, d \in DeviceArgs }

\* The WHISPER_* variables: None is an unset variable.
NoEnviron ==
    [WHISPER_MODEL |-> None, WHISPER_LANGUAGE |-> None, WHISPER_TASK |-> None,
     WHISPER_FORMATS |-> None, WHISPER_DEVICE |-> None]

Environs ==
    { NoEnviron,
      [WHISPER_MODEL |-> S_tiny, WHISPER_LANGUAGE |-> S_auto, WHISPER_TASK |-> S_translate,
       WHISPER_FORMATS |-> Ex_srt_vtt, WHISPER_DEVICE |-> S_cpu],
      [WHISPER_MODEL |-> None, WHISPER_LANGUAGE |-> S_en, WHISPER_TASK |-> None,
       WHISPER_FORMATS |-> <<>>, WHISPER_DEVICE |-> S_CUDA] }

\* os.getenv(key, default) on the value of the variable.
Getenv(value, default) == IF value = None THEN default ELSE value

\* A time in seconds, a Python float: its whole seconds and its fractional
\* part in units of 1/FracScale second.
FracScale == 10000

Secs(w, f) == [whole |-> w, frac |-> f]

\* What the speech model may return: segments with their times and text.
Seg(s, e, txt) == [start |-> s, end |-> e, text |-> txt]

SegLists ==
    { <<>>,
      <<Seg(Secs(0, 0), Secs(1, 5000), <<" ", "h", "i", " ">>)>>,
      <<Seg(Secs(0, 0), Secs(1, 5000), <<" ", "h", "i", " ">>),
        Seg(Secs(1, 5000), Secs(3661, 2005), <<"y", "o">>)>> }

NoModel == [name |-> None, device |-> None]
NoDir == [root |-> <<>>, stamp |-> -1]
NoErr == [type |-> "", tag |-> "", orig |-> <<>>]
NoResult == [output_dir |-> NoDir, files |-> <<>>, segments |-> <<>>,
             language |-> None, model |-> None, device |-> None]

\* One external operation of the call.
Ev(op, x) == [op |-> op, x |-> x]

(***************************************************************************)
(* transcribe_audio_core: resolving the parameters (lines 139-148)         *)
(***************************************************************************)

\* model_name = model_name or os.getenv("WHISPER_MODEL", "small.en")
ResolveModelName(a, env) == PyOr(a, Getenv(env.WHISPER_MODEL, S_small_en))

\* language = language or os.getenv("WHISPER_LANGUAGE"), then the
\* auto-detection test.
ResolveLanguage_KeepAuto(a, env) ==
    LET l == PyOr(a, env.WHISPER_LANGUAGE)
    IN  IF l \in {None, <<>>} THEN None ELSE l

ResolveLanguage(a, env) ==
    LET l == PyOr(a, env.WHISPER_LANGUAGE)
    IN  IF l \in {None, <<>>, S_auto, S_Auto_Detect} THEN None ELSE l

\* task = task or os.getenv("WHISPER_TASK", "transcribe")
ResolveTask(a, env) == PyOr(a, Getenv(env.WHISPER_TASK, S_transcribe))

\* formats = formats or os.getenv("WHISPER_FORMATS", "txt").split(",")
ResolveFormats(f, env) ==
    IF f.t # "none" /\ f.v # <<>>
    THEN f
    ELSE FmtList(Split(Getenv(env.WHISPER_FORMATS, S_txt), ","))

\* device = device or os.getenv("WHISPER_DEVICE", "auto")
ResolveDevice(a, env) == PyOr(a, Getenv(env.WHISPER_DEVICE, S_auto))

(***************************************************************************)
(* transcribe_audio_core: the classification of an inference error         *)
(***************************************************************************)

M_No_FFmpeg == <<"N", "o", " ", "F", "F", "m", "p", "e", "g">>
M_WinError_2 == <<"[", "W", "i", "n", "E", "r", "r", "o", "r", " ", "2", "]">>
M_out_of_memory == <<"o", "u", "t", " ", "o", "f", " ", "m", "e", "m", "o", "r", "y">>

M_Cannot_Find == <<"C", "a", "n", "n", "o", "t", " ", "f", "i", "n", "d", " ", "i", "t">>
M_File_Specified ==
    <<"n", "o", " ", "F", "i", "l", "e", " ", "S", "p", "e", "c", "i", "f", "i", "e", "d">>

\* The messages of the errors model.transcribe may raise.
InferErrors == {M_No_FFmpeg, M_WinError_2, M_Cannot_Find, M_File_Specified, M_out_of_memory}

\* sub in s
Contains(s, sub) ==
    \E i \in 1..(Len(s) - Len(sub) + 1) : SubSeq(s, i, i + Len(sub) - 1) = sub

\* ['ffmpeg', 'file specified', 'winerror 2', 'cannot find']
FfmpegKeywords ==
    { <<"f", "f", "m", "p", "e", "g">>,
      <<"f", "i", "l", "e", " ", "s", "p", "e", "c", "i", "f", "i", "e", "d">>,
      <<"w", "i", "n", "e", "r", "r", "o", "r", " ", "2">>,
      <<"c", "a", "n", "n", "o", "t", " ", "f", "i", "n", "d">> }

\* any(keyword in str(e).lower() for keyword in [...]); the mutant does not
\* lower-case the message.
LooksLikeFfmpegError_CaseSensitive(msg) == \E k \in FfmpegKeywords : Contains(msg, k)

LooksLikeFfmpegError(msg) == \E k \in FfmpegKeywords : Contains(Lower(msg), k)

(***************************************************************************)
(* Errors and file contents                                                *)
(***************************************************************************)

Error(type, tag, orig) == [type |-> type, tag |-> tag, orig |-> orig]

\* The message check_ffmpeg_availability raises with, by platform.
FfmpegNotFoundMsg(system) ==
    CASE system = "Windows" -> "FFmpeg not found: Windows installation options"
      [] system = "Darwin" -> "FFmpeg not found: brew install ffmpeg"
      [] OTHER -> "FFmpeg not found: sudo apt install ffmpeg"

\* The writer the loop calls for a format.
WriterOf(fmt) ==
    CASE fmt = S_srt -> "save_srt"
      [] fmt = S_tsv -> "save_tsv"
      [] fmt = S_txt -> "save_txt"
      [] fmt = S_vtt -> "save_vtt"
      [] fmt = S_json -> "save_json"
      [] OTHER -> "none"

\* What a writer leaves in its file: all of its rendering of the segments,
\* or, when the write failed after the file was opened, a part of it.
Content(fmt, segs, complete) ==
    [writer |-> WriterOf(fmt), segments |-> segs, complete |-> complete]

(***************************************************************************)
(* format_timestamp (lines 46-54)                                          *)
(***************************************************************************)

Digits == <<"0", "1", "2", "3", "4", "5", "6", "7", "8", "9">>

\* str(n) of a natural number.
RECURSIVE Str(_)
Str(n) == IF n < 10 THEN <<Digits[n + 1]>> ELSE Str(n \div 10) \o <<Digits[(n % 10) + 1]>>

\* f"{n:0w}": the decimal digits of n, zero-padded on the left to at least
\* w characters.
ZeroPad(n, w) ==
    LET d == Str(n)
    IN  [i \in 1..(IF Len(d) < w THEN w - Len(d) ELSE 0) |-> "0"] \o d

\* millis = int((seconds - int(seconds)) * 1000); the mutant rounds to the
\* nearest millisecond.
Millis_Rounded(seconds) == (seconds.frac * 1000 + FracScale \div 2) \div FracScale

Millis(seconds) == (seconds.frac * 1000) \div FracScale

format_timestamp(seconds, vtt) ==
    LET hours == seconds.whole \div 3600
        minutes == (seconds.whole % 3600) \div 60
        secs == seconds.whole % 60
        millis == Millis(seconds)
    IN  ZeroPad(hours, 2) \o <<":">> \o ZeroPad(minutes, 2) \o <<":">> \o ZeroPad(secs, 2)
            \o (IF vtt THEN <<".">> ELSE <<",">>) \o ZeroPad(millis, 3)

(***************************************************************************)
(* The format writers (lines 15-44)                                        *)
(***************************************************************************)

\* open(out_path, "w"): the file is created, or cut to nothing when it
\* exists; the mutant opens it for appending.
OpenForWriting_Append(files, path) ==
    IF path \in DOMAIN files THEN files ELSE (path :> <<>>) @@ files

OpenForWriting(files, path) == (path :> <<>>) @@ files

\* f.write(text) on the open file.
FileWrite(files, path, text) == [files EXCEPT ![path] = @ \o text]

\* The concatenation of a sequence of strings.
RECURSIVE Concat(_)
Concat(ss) == IF ss = <<>> THEN <<>> ELSE Head(ss) \o Concat(Tail(ss))

S_arrow == <<" ", "-", "-", ">", " ">>

\* What save_srt writes for the i-th segment; the mutant numbers from 0.
SrtBlock_FromZero(i, seg) ==
    Str(i - 1) \o <<"\n">>
        \o format_timestamp(seg.start, FALSE) \o S_arrow \o format_timestamp(seg.end, FALSE)
        \o <<"\n">> \o Strip(seg.text) \o <<"\n", "\n">>

SrtBlock(i, seg) ==
    Str(i) \o <<"\n">>
        \o format_timestamp(seg.start, FALSE) \o S_arrow \o format_timestamp(seg.end, FALSE)
        \o <<"\n">> \o Strip(seg.text) \o <<"\n", "\n">>

save_srt(files, segs, out_path) ==
    FileWrite(OpenForWriting(files, out_path), out_path,
              Concat([i \in 1..Len(segs) |-> SrtBlock(i, segs[i])]))

\* str(x) of a float, in an f-string: the whole part, a point, and the
\* fractional digits up to the last one that is not zero (one at least).
FloatRepr(seconds) ==
    LET d == ZeroPad(seconds.frac, Len(Str(FracScale)) - 1)
        nz == {i \in 1..Len(d) : d[i] # "0"}
        last == IF nz = {} THEN 1 ELSE CHOOSE i \in nz : \A j \in nz : j <= i
    IN  Str(seconds.whole) \o <<".">> \o SubSeq(d, 1, last)

S_tsv_header ==
    <<"s", "t", "a", "r", "t", "\t", "e", "n", "d", "\t",
      "s", "p", "e", "a", "k", "e", "r", "\t", "t", "e", "x", "t", "\n">>

\* What save_tsv writes before the loop; the mutant writes it only when there
\* is a segment.
TsvHeader_IfAny(segs) == IF segs = <<>> THEN <<>> ELSE S_tsv_header

TsvHeader(segs) == S_tsv_header

\* What save_tsv writes for a segment.
TsvRow(seg) ==
    FloatRepr(seg.start) \o <<"\t">> \o FloatRepr(seg.end) \o <<"\t", "\t">>
        \o Strip(seg.text) \o <<"\n">>

save_tsv(files, segs, out_path) ==
    FileWrite(FileWrite(OpenForWriting(files, out_path), out_path, TsvHeader(segs)),
              out_path, Concat([i \in 1..Len(segs) |-> TsvRow(segs[i])]))

\* A string as json.dump writes it with ensure_ascii=False: between double
\* quotes, the quote, the backslash and the control characters escaped.
JsonEscape(c) ==
    CASE c = "\"" -> <<"\\", "\"">>
      [] c = "\\" -> <<"\\", "\\">>
      [] c = "\n" -> <<"\\", "n">>
      [] c = "\t" -> <<"\\", "t">>
      [] c = "\r" -> <<"\\", "r">>
      [] OTHER -> <<c>>

JsonString(str) == <<"\"">> \o Concat([i \in 1..Len(str) |-> JsonEscape(str[i])]) \o <<"\"">>

\* "key": value, at the indentation of an object in the list.
JsonMember(key, value) == <<" ", " ", " ", " ">> \o JsonString(key) \o <<":", " ">> \o value

\* A segment as json.dump writes it with indent=2, inside the list.
JsonSegment(seg) ==
    <<" ", " ", "{", "\n">>
        \o JsonMember(<<"s", "t", "a", "r", "t">>, FloatRepr(seg.start)) \o <<",", "\n">>
        \o JsonMember(<<"e", "n", "d">>, FloatRepr(seg.end)) \o <<",", "\n">>
        \o JsonMember(<<"t", "e", "x", "t">>, JsonString(seg.text)) \o <<"\n">>
        \o <<" ", " ", "}">>

\* json.dump(segments, f, ensure_ascii=False, indent=2)
JsonDump(segs) ==
    IF segs = <<>> THEN <<"[", "]">>
    ELSE <<"[", "\n">>
            \o Concat([i \in 1..Len(segs) |->
                          JsonSegment(segs[i])
                              \o (IF i < Len(segs) THEN <<",", "\n">> ELSE <<"\n">>)])
            \o <<"]">>

save_json(files, segs, out_path) ==
    FileWrite(OpenForWriting(files, out_path), out_path, JsonDump(segs))

(***************************************************************************)
(* main.py, save_audio_to_inputs (lines 32-68)                             *)
(***************************************************************************)

S_inputs == <<"i", "n", "p", "u", "t", "s">>

\* The endings line 48 takes for those of an audio file.
AudioExtensions ==
    { <<".", "m", "p", "3">>, <<".", "w", "a", "v">>,
      <<".", "m", "4", "a">>, <<".", "f", "l", "a", "c">>,
      <<".", "o", "g", "g">>, <<".", "w", "m", "a">>,
      <<".", "a", "a", "c">> }

\* str.endswith(suffix)
EndsWith(str, suffix) ==
    Len(suffix) <= Len(str) /\ SubSeq(str, Len(str) - Len(suffix) + 1, Len(str)) = suffix

\* Lines 45-49: Path(audio_file).name, with ".wav" added when it does not
\* end, in lower case, with an audio extension.
UploadFilename(audio_file) ==
    LET filename == Basename(audio_file)
    IN  IF \E e \in AudioExtensions : EndsWith(Lower(filename), e)
        THEN filename
        ELSE filename \o <<".", "w", "a", "v">>

\* Path(name).suffix: from the last dot on, when that dot is neither the
\* first nor the last character of the name.
PathSuffix(name) ==
    LET d == LastIndexOf(name, ".")
    IN  IF 1 < d /\ d < Len(name) THEN SubSeq(name, d, Len(name)) ELSE <<>>

\* Path(name).stem
PathStem(name) == SubSeq(name, 1, Len(name) - Len(PathSuffix(name)))

\* os.path.join("inputs", filename)
InputPath(filename) == [dir |-> S_inputs, name |-> filename]

\* f"{base_name}_{counter}{extension}"
NumberedName(base_name, counter, extension) ==
    base_name \o <<"_">> \o Str(counter) \o extension

\* os.path.exists(destination_path); the mutant never finds the name taken.
DestinationTaken_Never(path, files) == FALSE

DestinationTaken(path, files) == path \in DOMAIN files

\* The handlers of the web interface that may be inside save_audio_to_inputs
\* at the same time (the upload event and the transcribe button).
NHandlers == 2

\* A handler that is not inside the function and has not called it.
NoUpload ==
    [pc |-> "idle", calls |-> 0, audio_file |-> None, content |-> <<>>, counter |-> 0,
     base_name |-> <<>>, extension |-> <<>>, destination_path |-> InputPath(<<>>),
     status |-> "", before |-> <<>>, after |-> <<>>, overlapped |-> FALSE]

NoUploads == [h \in 1..NHandlers |-> NoUpload]

(***************************************************************************)
(* Initial states                                                          *)
(***************************************************************************)

\* The jobs of one process run whose output directories are compared.
NJobs == 3

Jobs == 1..NJobs

\* What outputs/ may hold when the call is made: nothing, or the directory
\* and a file of an earlier run.
OldDir == OutputDirAt(0)

InitialOutputs ==
    { [dirs |-> {}, files |-> <<>>],
      [dirs |-> {OldDir}, files |-> (OutPath(OldDir, <<"a">>, S_txt) :> Content(S_txt, <<>>, TRUE))] }

InitJob ==
    /\ pc = "idle"
    /\ call = [audio_path |-> None, model_name |-> None, language |-> None,
               task |-> None, formats |-> FmtNone, device |-> None]
    /\ model_name = None
    /\ language = None
    /\ task = None
    /\ formats = FmtNone
    /\ device = None
    /\ model = NoModel
    /\ segments = <<>>
    /\ result_language = None
    /\ output_dir = NoDir
    /\ output_files = <<>>
    /\ result = NoResult
    /\ err = NoErr
    /\ trace = <<>>

Pending == [done |-> FALSE, v |-> <<>>]

Returned(v) == [done |-> TRUE, v |-> v]

InitPure ==
    /\ fn = "none"
    /\ arg = <<>>
    /\ ret = Pending

Init ==
    /\ InitJob
    /\ InitPure
    /\ ffmpeg_status \in {"ok", "missing", "broken"}
    /\ cuda_available \in BOOLEAN
    /\ environ \in Environs
    /\ audio_files = AudioOnDisk
    /\ now = 0
    /\ \E o \in InitialOutputs : fs_dirs = o.dirs /\ fs_files = o.files
    /\ job_dir = [j \in Jobs |-> NoDir]
    /\ uploads = NoUploads

(***************************************************************************)
(* transcribe_audio_core, step by step                                     *)
(***************************************************************************)

Raise(e) == pc' = "raised" /\ err' = e

\* check_ffmpeg_availability returns True (it raises otherwise).
FfmpegAvailable_Unchecked(status) == TRUE

FfmpegAvailable(status) == status = "ok"

\* if not formats: raise ValueError(...)
NoValidFormats_Unchecked(fmts) == FALSE

NoValidFormats(fmts) == fmts = <<>>

\* os.path.exists(audio_path)
AudioExists_Unchecked(path, files) == TRUE

AudioExists(path, files) == path \in files

\* The returned dict; the mutant reports the device the caller asked for.
JobResult_RequestedDevice(od, files, segs, lang, mname, dev) ==
    [output_dir |-> od, files |-> files, segments |-> segs, language |-> lang,
     model |-> mname, device |-> call.device]

JobResult(od, files, segs, lang, mname, dev) ==
    [output_dir |-> od, files |-> files, segments |-> segs, language |-> lang,
     model |-> mname, device |-> dev]

\* The call: the parameters are bound to the arguments.
Call ==
    /\ pc = "idle"
    /\ \E c \in Calls :
        /\ call' = c
        /\ model_name' = c.model_name
        /\ language' = c.language
        /\ task' = c.task
        /\ formats' = c.formats
        /\ device' = c.device
    /\ pc' = "check_ffmpeg"
    /\ UNCHANGED <<model, segments, result_language, output_dir, output_files,
                   result, err, trace>>
    /\ UNCHANGED <<envVars, fsVars, job_dir, uploads, pureVars>>

\* Lines 133-137, with check_ffmpeg_availability (lines 83-116).
CheckFfmpeg ==
    /\ pc = "check_ffmpeg"
    /\ trace' = Append(trace, Ev("check_ffmpeg", <<>>))
    /\ IF FfmpegAvailable(ffmpeg_status)
       THEN pc' = "resolve" /\ err' = err
       ELSE IF ffmpeg_status = "missing"
       THEN \E system \in {"Windows", "Darwin", "Linux"} :
                Raise(Error("RuntimeError", FfmpegNotFoundMsg(system), <<>>))
       ELSE Raise(Error("RuntimeError", "Error checking FFmpeg", <<>>))
    /\ UNCHANGED <<call, model_name, language, task, formats, device, model, segments,
                   result_language, output_dir, output_files, result>>
    /\ UNCHANGED <<envVars, fsVars, job_dir, uploads, pureVars>>

\* Lines 139-148.
ResolveDefaults ==
    /\ pc = "resolve"
    /\ model_name' = ResolveModelName(model_name, environ)
    /\ language' = ResolveLanguage(language, environ)
    /\ task' = ResolveTask(task, environ)
    /\ formats' = ResolveFormats(formats, environ)
    /\ device' = ResolveDevice(device, environ)
    /\ pc' = "normalize_formats"
    /\ UNCHANGED <<call, model, segments, result_language, output_dir, output_files,
                   result, err, trace>>
    /\ UNCHANGED <<envVars, fsVars, job_dir, uploads, pureVars>>

\* Lines 150-156.
NormalizeStep ==
    /\ pc = "normalize_formats"
    /\ formats' = FmtList(NormalizeFormats(formats))
    /\ trace' = Append(trace, Ev("normalize_formats", <<>>))
    /\ IF NoValidFormats(formats'.v)
       THEN Raise(Error("ValueError", "No valid formats selected", <<>>))
       ELSE pc' = "check_audio" /\ err' = err
    /\ UNCHANGED <<call, model_name, language, task, device, model, segments,
                   result_language, output_dir, output_files, result>>
    /\ UNCHANGED <<envVars, fsVars, job_dir, uploads, pureVars>>

\* Lines 158-160.
CheckAudioExists ==
    /\ pc = "check_audio"
    /\ trace' = Append(trace, Ev("path_exists", <<>>))
    /\ IF AudioExists(call.audio_path, audio_files)
       THEN pc' = "get_device" /\ err' = err
       ELSE Raise(Error("FileNotFoundError", "Audio file not found", <<>>))
    /\ UNCHANGED <<call, model_name, language, task, formats, device, model, segments,
                   result_language, output_dir, output_files, result>>
    /\ UNCHANGED <<envVars, fsVars, job_dir, uploads, pureVars>>

\* Line 163.
SelectDevice ==
    /\ pc = "get_device"
    /\ device' = get_device(device, cuda_available)
    /\ trace' = Append(trace, Ev("get_device", device'))
    /\ pc' = "load_model"
    /\ UNCHANGED <<call, model_name, language, task, formats, model, segments,
                   result_language, output_dir, output_files, result, err>>
    /\ UNCHANGED <<envVars, fsVars, job_dir, uploads, pureVars>>

\* The bug of retrying on "cpu" whatever the device of the failed load.
FallbackDevice_Always(dev) == S_cpu

\* The device the except branch of the load retries on, None when it re-raises.

FallbackDevice(dev) == IF dev = S_cuda THEN S_cpu ELSE None

\* The step that follows a successful load: the inference (lines 178-195);
\* the output directory comes after it (lines 197-200).  The mutant makes the
\* directory first.
StepAfterLoad_MakeDirs == "make_output_dir"

StepAfterLoad == "transcribe"

\* Lines 166-173 and 175-176: the first load, and what its failure leads to.
LoadModel ==
    /\ pc = "load_model"
    /\ trace' = Append(trace, Ev("load_model", device))
    /\ \E loaded \in BOOLEAN :
        IF loaded
        THEN /\ model' = [name |-> model_name, device |-> device]
             /\ pc' = StepAfterLoad
             /\ UNCHANGED <<device, err>>
        ELSE IF FallbackDevice(device) # None
        THEN /\ device' = FallbackDevice(device)
             /\ pc' = "load_fallback"
             /\ UNCHANGED <<model, err>>
        ELSE /\ Raise(Error("Exception", "load_model", <<>>))
             /\ UNCHANGED <<model, device>>
    /\ UNCHANGED <<call, model_name, language, task, formats, segments,
                   result_language, output_dir, output_files, result>>
    /\ UNCHANGED <<envVars, fsVars, job_dir, uploads, pureVars>>

\* Line 174: the load on the fallback device, inside the except branch.
LoadModelFallback ==
    /\ pc = "load_fallback"
    /\ trace' = Append(trace, Ev("load_model", device))
    /\ \E loaded \in BOOLEAN :
        IF loaded
        THEN /\ model' = [name |-> model_name, device |-> device]
             /\ pc' = StepAfterLoad
             /\ err' = err
        ELSE /\ Raise(Error("Exception", "load_model", <<>>))
             /\ model' = model
    /\ UNCHANGED <<call, model_name, language, task, formats, device, segments,
                   result_language, output_dir, output_files, result>>
    /\ UNCHANGED <<envVars, fsVars, job_dir, uploads, pureVars>>

\* Lines 178-195.
Transcribe ==
    /\ pc = "transcribe"
    /\ trace' = Append(trace, Ev("transcribe", language))
    /\ \/ \E sl \in SegLists, rl \in {None, S_en} :
            /\ segments' = sl
            /\ result_language' = rl
            /\ pc' = "make_output_dir"
            /\ err' = err
       \/ \E msg \in InferErrors :
            /\ IF LooksLikeFfmpegError(msg)
               THEN Raise(Error("RuntimeError", "Audio processing failed", msg))
               ELSE Raise(Error("Exception", "transcribe", msg))
            /\ UNCHANGED <<segments, result_language>>
    /\ UNCHANGED <<call, model_name, language, task, formats, device, model,
                   output_dir, output_files, result>>
    /\ UNCHANGED <<envVars, fsVars, job_dir, uploads, pureVars>>

\* Lines 197-204: the clock is read (any time may have passed since it was
\* last read) and the directory is made, exist_ok=True.
CreateOutputDir ==
    /\ pc = "make_output_dir"
    /\ trace' = Append(trace, Ev("makedirs", <<>>))
    /\ \E t \in now..MaxTick :
        /\ now' = t
        /\ output_dir' = OutputDirAt(t)
    /\ \/ /\ fs_dirs' = fs_dirs \cup {output_dir'}
          /\ pc' = "save"
          /\ err' = err
       \/ /\ Raise(Error("OSError", "makedirs", <<>>))
          /\ fs_dirs' = fs_dirs
    /\ UNCHANGED <<call, model_name, language, task, formats, device, model, segments,
                   result_language, output_files, result>>
    /\ UNCHANGED <<envVars, fs_files, job_dir, uploads, pureVars>>

\* The caller's list of segments after a writer has gone through it: the
\* writers read seg["start"], seg["end"] and seg["text"] and assign nothing.
\* The mutant trims the texts in place.
SegmentsAfterWriter_StripInPlace(fmt, segs) ==
    [i \in 1..Len(segs) |-> [segs[i] EXCEPT !.text = Strip(@)]]

SegmentsAfterWriter(fmt, segs) == segs

\* The files on disk when a writer has failed after opening its file: the
\* exception leaves the function, nothing is removed.  The mutant removes
\* what the job has written so far.
FailedWriteFiles_Cleanup(files, out_path, fmt, segs) ==
    [p \in {q \in DOMAIN files : q.dir # out_path.dir} |-> files[p]]

FailedWriteFiles(files, out_path, fmt, segs) ==
    (out_path :> Content(fmt, segs, FALSE)) @@ files

\* Lines 208-222, one iteration of the loop: the writer either writes its
\* file, or fails before opening it, or fails after opening (and truncating)
\* it.
SaveFormat ==
    /\ pc = "save"
    /\ Len(output_files) < Len(formats.v)
    /\ LET fmt == formats.v[Len(output_files) + 1]
           out_path == OutPath(output_dir, BaseName(call.audio_path), fmt)
       IN  /\ trace' = Append(trace, Ev("save", fmt))
           /\ \/ /\ fs_files' = (out_path :> Content(fmt, segments, TRUE)) @@ fs_files
                 /\ output_files' = Append(output_files, out_path)
                 /\ segments' = SegmentsAfterWriter(fmt, segments)
                 /\ UNCHANGED <<pc, err>>
              \/ /\ Raise(Error("OSError", "open", <<>>))
                 /\ UNCHANGED <<fs_files, output_files, segments>>
              \/ /\ Raise(Error("OSError", "write", <<>>))
                 /\ fs_files' = FailedWriteFiles(fs_files, out_path, fmt, segments)
                 /\ segments' = SegmentsAfterWriter(fmt, segments)
                 /\ UNCHANGED output_files
    /\ UNCHANGED <<call, model_name, language, task, formats, device, model,
                   result_language, output_dir, result>>
    /\ UNCHANGED <<envVars, now, fs_dirs, job_dir, uploads, pureVars>>

\* Lines 224-231.
Return ==
    /\ pc = "save"
    /\ Len(output_files) = Len(formats.v)
    /\ result' = JobResult(output_dir, output_files, segments, result_language,
                         model_name, device)
    /\ pc' = "returned"
    /\ UNCHANGED <<call, model_name, language, task, formats, device, model, segments,
                   result_language, output_dir, output_files, err, trace>>
    /\ UNCHANGED <<envVars, fsVars, job_dir, uploads, pureVars>>

Next ==
    \/ Call
    \/ CheckFfmpeg
    \/ ResolveDefaults
    \/ NormalizeStep
    \/ CheckAudioExists
    \/ SelectDevice
    \/ LoadModel
    \/ LoadModelFallback
    \/ Transcribe
    \/ CreateOutputDir
    \/ SaveFormat
    \/ Return

Spec == Init /\ [][Next]_vars

(***************************************************************************)
(* The pure functions, applied to inputs drawn from bounded sets           *)
(***************************************************************************)

\* The most tokens of a comma-separated format string.
MaxTokens == 3

UpperChar(c) ==
    IF \E i \in 1..26 : LowerLetters[i] = c
    THEN UpperLetters[CHOOSE i \in 1..26 : LowerLetters[i] = c]
    ELSE c

\* Every spelling of w in upper and lower case letters.
RECURSIVE CaseVariants(_)
CaseVariants(w) ==
    IF w = <<>> THEN {<<>>}
    ELSE { <<c>> \o r : c \in {Head(w), UpperChar(Head(w))}, r \in CaseVariants(Tail(w)) }

\* A token of a format string: a word with no white space at its ends,
\* between two runs of white space.
Tokens ==
    { [pre |-> pd[1], word |-> w, post |-> pd[2]] :
        w \in {S_srt, S_txt, S_json, <<"S", "R", "T">>, S_bogus, <<>>},
        pd \in { <<<<>>, <<>>>>, <<<<" ">>, <<" ">>>>, <<<<"\t">>, <<>>>> } }

TokenText(tk) == tk.pre \o tk.word \o tk.post

\* ",".join of the tokens' texts.
RECURSIVE JoinTokens(_)
JoinTokens(tks) ==
    IF Len(tks) = 1 THEN TokenText(tks[1])
    ELSE TokenText(Head(tks)) \o <<",">> \o JoinTokens(Tail(tks))

NormalizeInputs ==
    { [tokens |-> tks, text |-> JoinTokens(tks)] :
        tks \in UNION { [1..n -> Tokens] : n \in 1..MaxTokens } }

GetDeviceInputs ==
    { [pref |-> p, cuda |-> c] :
        p \in CaseVariants(S_cuda) \cup CaseVariants(S_cpu) \cup CaseVariants(S_auto)
                \cup { None, <<>>, S_mps, <<"g", "p", "u">>,
                       <<"c", "u", "d", "a", ":", "0">>,
                       <<" ", "c", "p", "u">>, <<"A", "u", "t", "o", " ">> },
        c \in BOOLEAN }

\* The arguments and the environment of a call whose defaults are resolved.
ResolveInputs ==
    { [model_name |-> m, task |-> t, formats |-> f, device |-> d, env |-> e] :
        m \in {None, <<>>, S_tiny},
        t \in {None, <<>>, S_translate},
        f \in {FmtNone, FmtStr(<<>>), FmtList(<<>>), FmtStr(Ex_txt_json), FmtList(<<S_json>>)},
        d \in {None, <<>>, S_cpu, S_auto},
        e \in Environs }

\* The most segments of a transcript handed to a writer.
MaxSegs == 3

\* Times a segment may start or end at, each with its Python repr.
T_0 == [t |-> Secs(0, 0), repr |-> <<"0", ".", "0">>]

T_1_5 == [t |-> Secs(1, 5000), repr |-> <<"1", ".", "5">>]

T_3661_2005 == [t |-> Secs(3661, 2005), repr |-> <<"3", "6", "6", "1", ".", "2", "0", "0", "5">>]

\* The segments handed to a writer: the text is a word between two runs of
\* white space.
SegChoice(from, to, pre, word, post) ==
    [start |-> from, end |-> to, pre |-> pre, word |-> word, post |-> post]

SegChoices ==
    { SegChoice(T_0, T_1_5, <<" ">>, <<"h", "i">>, <<" ", "\n">>),
      SegChoice(T_1_5, T_3661_2005, <<>>, <<"h", "i">>, <<>>),
      SegChoice(T_0, T_1_5, <<>>, <<"a", " ", "b">>, <<>>),
      SegChoice(T_1_5, T_3661_2005, <<" ">>, <<"a", " ", "b">>, <<" ", "\n">>),
      SegChoice(T_0, T_1_5, <<>>, <<>>, <<>>),
      SegChoice(T_1_5, T_3661_2005, <<" ">>, <<>>, <<" ", "\n">>) }

SegmentOf(c) == Seg(c.start.t, c.end.t, c.pre \o c.word \o c.post)

SegmentsOf(cs) == [i \in 1..Len(cs) |-> SegmentOf(cs[i])]

\* The segments and the destination of a call of a writer, and whether the
\* destination holds a file before the call.
WriterInputs(fmt) ==
    { [segs |-> cs, path |-> OutPath(OldDir, <<"a">>, fmt), old |-> o] :
        cs \in UNION { [1..n -> SegChoices] : n \in 0..MaxSegs },
        o \in BOOLEAN }

\* The most calls of save_json with the same segments and destination.
MaxWrites == 2

InitFunctions ==
    /\ InitJob
    /\ ffmpeg_status = "ok"
    /\ cuda_available = FALSE
    /\ environ = NoEnviron
    /\ audio_files = AudioOnDisk
    /\ now = 0
    /\ job_dir = [j \in Jobs |-> NoDir]
    /\ uploads = NoUploads
    /\ ret = Pending
    /\ \/ fn = "normalize_formats" /\ arg \in NormalizeInputs
       \/ fn = "get_device" /\ arg \in GetDeviceInputs
       \/ fn = "resolve_defaults" /\ arg \in ResolveInputs
       \/ /\ fn = "format_timestamp"
          /\ arg \in { [seconds |-> Secs(w, f), vtt |-> v] :
                        w \in {0, 1, 59, 60, 61, 3599, 3600, 3661, 86399,
                               359999, 360000, 3600000},
                        f \in {0, 1, 9, 10, 2005, 5000, 9990, 9999},
                        v \in BOOLEAN }
       \/ fn = "save_srt" /\ arg \in WriterInputs(S_srt)
       \/ fn = "save_tsv" /\ arg \in WriterInputs(S_tsv)
       \/ fn = "save_json" /\ arg \in WriterInputs(S_json)
    /\ IF fn \in {"save_srt", "save_tsv", "save_json"}
       THEN /\ fs_dirs = {OldDir}
            /\ fs_files = IF arg.old THEN (arg.path :> <<"o", "l", "d", "\n">>) ELSE <<>>
       ELSE /\ fs_dirs = {}
            /\ fs_files = <<>>

\* The normalisation of lines 150-153 on a comma-separated string.
ApplyNormalizeFormats ==
    /\ fn = "normalize_formats"
    /\ ~ret.done
    /\ ret' = Returned(NormalizeFormats(FmtStr(arg.text)))
    /\ UNCHANGED <<fn, arg, jobVars, envVars, fsVars, job_dir, uploads>>

ApplyGetDevice ==
    /\ fn = "get_device"
    /\ ~ret.done
    /\ ret' = Returned(get_device(arg.pref, arg.cuda))
    /\ UNCHANGED <<fn, arg, jobVars, envVars, fsVars, job_dir, uploads>>

\* Lines 140 and 142-144 on the arguments of a call.
ApplyResolveDefaults ==
    /\ fn = "resolve_defaults"
    /\ ~ret.done
    /\ ret' = Returned([model_name |-> ResolveModelName(arg.model_name, arg.env),
                        task |-> ResolveTask(arg.task, arg.env),
                        formats |-> ResolveFormats(arg.formats, arg.env),
                        device |-> ResolveDevice(arg.device, arg.env)])
    /\ UNCHANGED <<fn, arg, jobVars, envVars, fsVars, job_dir, uploads>>

ApplyFormatTimestamp ==
    /\ fn = "format_timestamp"
    /\ ~ret.done
    /\ ret' = Returned(format_timestamp(arg.seconds, arg.vtt))
    /\ UNCHANGED <<fn, arg, jobVars, envVars, fsVars, job_dir, uploads>>

ApplySaveSrt ==
    /\ fn = "save_srt"
    /\ ~ret.done
    /\ fs_files' = save_srt(fs_files, SegmentsOf(arg.segs), arg.path)
    /\ ret' = Returned(<<fs_files'[arg.path]>>)
    /\ UNCHANGED <<fn, arg, jobVars, envVars, now, fs_dirs, job_dir, uploads>>

ApplySaveTsv ==
    /\ fn = "save_tsv"
    /\ ~ret.done
    /\ fs_files' = save_tsv(fs_files, SegmentsOf(arg.segs), arg.path)
    /\ ret' = Returned(<<fs_files'[arg.path]>>)
    /\ UNCHANGED <<fn, arg, jobVars, envVars, now, fs_dirs, job_dir, uploads>>

\* save_json, called again with the same segments and destination: ret
\* collects what the file holds after each call.
ApplySaveJson ==
    /\ fn = "save_json"
    /\ Len(ret.v) < MaxWrites
    /\ fs_files' = save_json(fs_files, SegmentsOf(arg.segs), arg.path)
    /\ ret' = Returned(Append(ret.v, fs_files'[arg.path]))
    /\ UNCHANGED <<fn, arg, jobVars, envVars, now, fs_dirs, job_dir, uploads>>

NextFunctions ==
    \/ ApplyNormalizeFormats
    \/ ApplyGetDevice
    \/ ApplyResolveDefaults
    \/ ApplyFormatTimestamp
    \/ ApplySaveSrt
    \/ ApplySaveTsv
    \/ ApplySaveJson

SpecFunctions == InitFunctions /\ [][NextFunctions]_vars

(***************************************************************************)
(* C1                                                                      *)
(***************************************************************************)

\* The words of the tokens that are known formats, in the tokens' order.
KnownWords(tks) ==
    LET words == [i \in 1..Len(tks) |-> tks[i].word]
    IN  SelectSeq(words, LAMBDA w : w \in {S_srt, S_tsv, S_txt, S_vtt, S_json})

NormalizeApplied == fn = "normalize_formats" /\ ret.done

\* C1 as stated: normalising a comma-separated string trims the white space
\* around each token, drops the tokens that are not known formats and keeps
\* the others in order, and "SRT, bogus ,txt" yields srt and txt.
C1_AsStated ==
    NormalizeApplied =>
        /\ ret.v = KnownWords(arg.tokens)
        /\ arg.text = Ex_SRT_bogus_txt => ret.v = <<S_srt, S_txt>>

\* C1, amended: normalising a comma-separated string trims the white space
\* around each token, drops the tokens that are not (in exactly this
\* spelling) known formats and keeps the others in order; "SRT, bogus ,txt"
\* yields txt alone, and "srt, bogus ,txt" yields srt and txt.
C1_Normalization ==
    NormalizeApplied =>
        /\ ret.v = KnownWords(arg.tokens)
        /\ arg.text = Ex_SRT_bogus_txt => ret.v = <<S_txt>>
        /\ arg.text = Ex_srt_bogus_txt => ret.v = <<S_srt, S_txt>>

\* "SRT, bogus ,txt" has been normalised.
C1_Witness == NormalizeApplied /\ arg.text = Ex_SRT_bogus_txt /\ Len(ret.v) = 1

(***************************************************************************)
(* C5, C6                                                                  *)
(***************************************************************************)

GetDeviceApplied == fn = "get_device" /\ ret.done

AutoDetected == IF arg.cuda THEN S_cuda ELSE S_cpu

\* C5: get_device returns a device for every preference; for "cuda" in any
\* letter case without CUDA hardware it returns "cpu", and for "cpu" in any
\* letter case it returns "cpu" with or without CUDA hardware.
C5_NeverRaises ==
    GetDeviceApplied =>
        /\ ret.v \in {S_cuda, S_cpu}
        /\ arg.pref \in CaseVariants(S_cuda) /\ ~arg.cuda => ret.v = S_cpu
        /\ arg.pref \in CaseVariants(S_cpu) => ret.v = S_cpu

\* "CUDA" was asked for on a machine without CUDA hardware.
C5_Witness ==
    GetDeviceApplied /\ arg.pref = S_CUDA /\ ~arg.cuda /\ ret.v = S_cpu

\* A preference that is neither "cuda" nor "cpu" nor "auto", in any case.
Unrecognized(pref) ==
    /\ pref # None
    /\ pref \notin CaseVariants(S_cuda) \cup CaseVariants(S_cpu) \cup CaseVariants(S_auto)

\* C6 as stated: for "auto" and for every unrecognized preference string
\* get_device returns "cuda" when CUDA hardware is available and "cpu" when
\* it is not.
C6_AsStated ==
    GetDeviceApplied /\ (arg.pref = S_auto \/ Unrecognized(arg.pref)) =>
        ret.v = AutoDetected

\* C6, amended: for "auto" (in any letter case), for no preference and for
\* the empty preference get_device returns "cuda" when CUDA hardware is
\* available and "cpu" when it is not; for every other unrecognized
\* preference string it returns "cpu", with or without CUDA hardware.
C6_AutoAndUnrecognized ==
    GetDeviceApplied =>
        /\ arg.pref \in CaseVariants(S_auto) \cup {None, <<>>} => ret.v = AutoDetected
        /\ Unrecognized(arg.pref) /\ arg.pref # <<>> => ret.v = S_cpu

\* An unrecognized preference on a machine with CUDA hardware.
C6_Witness ==
    GetDeviceApplied /\ arg.pref = S_mps /\ arg.cuda /\ ret.v = S_cpu

(***************************************************************************)
(* The jobs of the claims                                                  *)
(***************************************************************************)

Called == pc # "idle"

HasOp(op) == \E i \in 1..Len(trace) : trace[i].op = op

\* Every operation op of the trace comes after an operation first.
Precedes(first, op) ==
    \A i \in 1..Len(trace) :
        trace[i].op = op => \E j \in 1..(i - 1) : trace[j].op = first

\* The loads of the model the call has attempted, in order.
Loads == SelectSeq(trace, LAMBDA e : e.op = "load_model")

\* The precondition checks the call has made, in order.
Checks ==
    SelectSeq(trace, LAMBDA e : e.op \in {"check_ffmpeg", "normalize_formats", "path_exists"})

IsPrefix(p, q) == Len(p) <= Len(q) /\ \A i \in 1..Len(p) : p[i] = q[i]

\* The calls whose formats, with the configured default, hold no known
\* format.
NoValidFormatsRequested ==
    \/ call.formats = FmtStr(Ex_bogus_other)
    \/ call.formats = FmtNone /\ environ.WHISPER_FORMATS = <<>>

AudioMissing == call.audio_path = P_inputs_gone_m4a

DecoderUnavailable == ffmpeg_status # "ok"

\* Neither the model nor the file system has been touched.
NoExpensiveWork ==
    /\ ~HasOp("load_model") /\ ~HasOp("transcribe")
    /\ ~HasOp("makedirs") /\ ~HasOp("save")
    /\ model = NoModel
    /\ \E o \in InitialOutputs : fs_dirs = o.dirs /\ fs_files = o.files

(***************************************************************************)
(* C2                                                                      *)
(***************************************************************************)

\* C2: when the format list is empty after the normalisation, the call
\* raises ValueError and goes no further: no model load, no inference, no
\* file.  A call whose formats hold no known format never returns and never
\* loads, infers or writes, and ValueError is raised for such calls only.
C2_NoValidFormats ==
    /\ HasOp("normalize_formats") /\ formats.v = <<>> =>
          pc = "raised" /\ err.type = "ValueError" /\ NoExpensiveWork
    /\ Called /\ NoValidFormatsRequested => pc # "returned" /\ NoExpensiveWork
    /\ err.type = "ValueError" => NoValidFormatsRequested

\* "bogus,other" was normalised to nothing and the call raised.
C2_Witness ==
    /\ pc = "raised" /\ err.type = "ValueError"
    /\ call.formats = FmtStr(Ex_bogus_other)
    /\ HasOp("normalize_formats") /\ formats.v = <<>>

(***************************************************************************)
(* C3                                                                      *)
(***************************************************************************)

\* C3: the existence check of the audio file comes before every model load
\* and every inference call; when the file is missing neither is ever made,
\* the call never returns, and the existence check raises FileNotFoundError
\* (which is raised for a missing file only).
C3_AudioChecked ==
    /\ Precedes("path_exists", "load_model")
    /\ Precedes("path_exists", "transcribe")
    /\ Called /\ AudioMissing =>
          /\ ~HasOp("load_model") /\ ~HasOp("transcribe")
          /\ model = NoModel
          /\ pc # "returned"
    /\ HasOp("path_exists") /\ AudioMissing =>
          pc = "raised" /\ err.type = "FileNotFoundError"
    /\ err.type = "FileNotFoundError" => AudioMissing

\* The existence check found the file missing.
C3_Witness ==
    /\ pc = "raised" /\ err.type = "FileNotFoundError"
    /\ HasOp("path_exists") /\ AudioMissing

(***************************************************************************)
(* C4                                                                      *)
(***************************************************************************)

\* C4 as stated: the checks are made in the order format normalisation,
\* audio-file existence, FFmpeg check; a call with no valid format fails with
\* ValueError and a call with a missing audio file (and valid formats) fails
\* with FileNotFoundError, even when FFmpeg is unavailable.
C4_AsStated ==
    /\ IsPrefix(Checks, <<Ev("normalize_formats", <<>>), Ev("path_exists", <<>>),
                          Ev("check_ffmpeg", <<>>)>>)
    /\ pc = "raised" /\ NoValidFormatsRequested => err.type = "ValueError"
    /\ pc = "raised" /\ ~NoValidFormatsRequested /\ AudioMissing =>
          err.type = "FileNotFoundError"

\* C4, amended: the checks are made in the order FFmpeg check, format
\* normalisation, audio-file existence, and the error raised is that of the
\* earliest failing check in this order: RuntimeError when FFmpeg is
\* unavailable (whatever the formats and the audio file), else ValueError
\* when no format is valid (even when the audio file is missing), else
\* FileNotFoundError when the audio file is missing.
C4_CheckOrder ==
    /\ IsPrefix(Checks, <<Ev("check_ffmpeg", <<>>), Ev("normalize_formats", <<>>),
                          Ev("path_exists", <<>>)>>)
    /\ Called /\ (DecoderUnavailable \/ NoValidFormatsRequested \/ AudioMissing) =>
          pc # "returned"
    /\ pc = "raised" /\ DecoderUnavailable => err.type = "RuntimeError"
    /\ pc = "raised" /\ ~DecoderUnavailable /\ NoValidFormatsRequested =>
          err.type = "ValueError"
    /\ pc = "raised" /\ ~DecoderUnavailable /\ ~NoValidFormatsRequested /\ AudioMissing =>
          err.type = "FileNotFoundError"

\* All three preconditions fail at once and the call has raised.
C4_Witness ==
    /\ pc = "raised" /\ err.type = "RuntimeError"
    /\ DecoderUnavailable /\ NoValidFormatsRequested /\ AudioMissing

\* No valid format and a missing audio file, FFmpeg available.
C4_WitnessFormatsFirst ==
    /\ pc = "raised" /\ err.type = "ValueError"
    /\ ~DecoderUnavailable /\ NoValidFormatsRequested /\ AudioMissing

(***************************************************************************)
(* C7                                                                      *)
(***************************************************************************)

LoadFailed == pc = "raised" /\ err = Error("Exception", "load_model", <<>>)

\* C7: at most two loads are attempted and a second one follows a failed
\* load on "cuda" and is on "cpu"; a failed first load on "cuda" leads to the
\* retry, a failed first load on any other device is raised at once, and a
\* failed retry is raised.
C7_LoadFallback ==
    /\ Len(Loads) <= 2
    /\ Len(Loads) = 2 => Loads[1].x = S_cuda /\ Loads[2].x = S_cpu
    /\ Len(Loads) = 1 /\ model = NoModel =>
          IF Loads[1].x = S_cuda
          THEN pc = "load_fallback" /\ err = NoErr /\ device = S_cpu
          ELSE LoadFailed
    /\ Len(Loads) = 2 /\ model = NoModel => LoadFailed
    /\ LoadFailed => Loads \in {<<Ev("load_model", S_cpu)>>,
                                <<Ev("load_model", S_cuda), Ev("load_model", S_cpu)>>}
    /\ model # NoModel => model.device = Loads[Len(Loads)].x

\* The load failed on "cuda" and then on "cpu".
C7_Witness == LoadFailed /\ Len(Loads) = 2

\* The load failed on "cpu", selected first.
C7_WitnessNoRetry == LoadFailed /\ Len(Loads) = 1

(***************************************************************************)
(* C8                                                                      *)
(***************************************************************************)

\* The device the selector returned to the call.
SelectedDevice == (CHOOSE e \in {trace[i] : i \in 1..Len(trace)} : e.op = "get_device").x

\* C8: the device of a returned result is the device of the successful load:
\* the selector's device when the first load succeeded, "cpu" when the load
\* on "cuda" failed and the retry succeeded.
C8_ResultDevice ==
    pc = "returned" =>
        /\ result.device = model.device
        /\ result.device = Loads[Len(Loads)].x
        /\ Len(Loads) = 1 => result.device = SelectedDevice
        /\ Len(Loads) = 2 => result.device = S_cpu /\ SelectedDevice = S_cuda

\* A result after a fallback from "cuda" to "cpu".
C8_Witness == pc = "returned" /\ Len(Loads) = 2 /\ result.device = S_cpu

(***************************************************************************)
(* C9                                                                      *)
(***************************************************************************)

\* The base names of the audio files.
ExpectedBase(path) ==
    IF path = P_inputs_a_mp3 THEN <<"a">>
    ELSE IF path = P_talk_v2_wav THEN <<"t", "a", "l", "k", ".", "v", "2">>
    ELSE <<>>

\* The known formats of the request, in the order of the request.
ExpectedFormats ==
    IF call.formats = FmtStr(Ex_SRT_bogus_txt) THEN <<S_txt>>
    ELSE IF call.formats = FmtStr(Ex_srt_bogus_txt) THEN <<S_srt, S_txt>>
    ELSE IF call.formats = FmtStr(Ex_txt_json) THEN <<S_txt, S_json>>
    ELSE IF call.formats = FmtList(<<S_json, S_bogus, S_txt, S_json>>)
         THEN <<S_json, S_txt, S_json>>
    ELSE IF call.formats = FmtNone /\ environ.WHISPER_FORMATS = None THEN <<S_txt>>
    ELSE IF call.formats = FmtNone /\ environ.WHISPER_FORMATS = Ex_srt_vtt
         THEN <<S_srt, S_vtt>>
    ELSE <<>>

\* C9: the files of a returned result are, one per format that survived the
\* normalisation and in the order of the request, <output_dir>/<base>.<format>,
\* and each of them is on disk, completely written, in a directory that exists.
C9_ResultFiles ==
    pc = "returned" =>
        /\ formats.v = ExpectedFormats
        /\ Len(result.files) = Len(ExpectedFormats)
        /\ \A i \in 1..Len(result.files) :
              /\ result.files[i] =
                    [dir |-> result.output_dir,
                     name |-> ExpectedBase(call.audio_path) \o <<".">> \o ExpectedFormats[i]]
              /\ result.files[i] \in DOMAIN fs_files
              /\ fs_files[result.files[i]] = Content(ExpectedFormats[i], result.segments, TRUE)
        /\ result.output_dir \in fs_dirs
        /\ result.output_dir.root = S_outputs

\* The result of a call for "txt,json": two files, in this order.
C9_Witness ==
    /\ pc = "returned"
    /\ call.formats = FmtStr(Ex_txt_json)
    /\ call.audio_path = P_talk_v2_wav
    /\ Len(result.files) = 2

(***************************************************************************)
(* Several jobs of one process run: lines 197-200 of each                  *)
(***************************************************************************)

InitDirs ==
    /\ InitJob
    /\ InitPure
    /\ ffmpeg_status = "ok"
    /\ cuda_available = FALSE
    /\ environ = NoEnviron
    /\ audio_files = AudioOnDisk
    /\ now = 0
    /\ \E o \in InitialOutputs : fs_dirs = o.dirs /\ fs_files = o.files
    /\ job_dir = [j \in Jobs |-> NoDir]
    /\ uploads = NoUploads

\* Job j reaches lines 198-200: it reads the clock (any time may have passed
\* since the clock was last read), names its directory after the second and
\* makes it, exist_ok=True.
JobCreatesOutputDir(j) ==
    /\ job_dir[j] = NoDir
    /\ \E t \in now..MaxTick :
        /\ now' = t
        /\ job_dir' = [job_dir EXCEPT ![j] = OutputDirAt(t)]
        /\ fs_dirs' = fs_dirs \cup {OutputDirAt(t)}
    /\ UNCHANGED <<jobVars, envVars, fs_files, uploads, pureVars>>

NextDirs == \E j \in Jobs : JobCreatesOutputDir(j)

SpecDirs == InitDirs /\ [][NextDirs]_vars

(***************************************************************************)
(* C10                                                                     *)
(***************************************************************************)

\* C10: two jobs of one process run never obtain the same output directory.
C10_DistinctDirs ==
    \A j, k \in Jobs :
        j # k /\ job_dir[j] # NoDir /\ job_dir[k] # NoDir => job_dir[j] # job_dir[k]

(***************************************************************************)
(* C11                                                                     *)
(***************************************************************************)

\* The calls of model.transcribe the job made, in order.
TranscribeCalls == SelectSeq(trace, LAMBDA e : e.op = "transcribe")

\* The caller's language when it gave one, else the WHISPER_LANGUAGE variable
\* (None when it is unset).
RequestedLanguage ==
    IF call.language \in {None, <<>>} THEN environ.WHISPER_LANGUAGE ELSE call.language

AutoDetectValues == {None, <<>>, S_auto, S_Auto_Detect}

\* C11: when the language of the job (the caller's, else the configured
\* default) is absent, empty, "auto" or "Auto Detect", the model is invoked
\* with no language; every other language is passed to the model unchanged.
C11_LanguageNormalization ==
    \A i \in 1..Len(TranscribeCalls) :
        /\ RequestedLanguage \in AutoDetectValues => TranscribeCalls[i].x = None
        /\ RequestedLanguage \notin AutoDetectValues =>
               TranscribeCalls[i].x = RequestedLanguage

\* The model was invoked for a job whose language came out of the
\* configuration as "auto".
C11_Witness ==
    /\ Len(TranscribeCalls) = 1
    /\ call.language = <<>>
    /\ environ.WHISPER_LANGUAGE = S_auto
    /\ TranscribeCalls[1].x = None

\* The model was invoked with the language the caller named.
C11_WitnessPassed ==
    /\ Len(TranscribeCalls) = 1
    /\ call.language = S_en
    /\ TranscribeCalls[1].x = S_en

\* The model was invoked for a job whose caller chose the label "Auto Detect".
C11_WitnessLabel ==
    /\ Len(TranscribeCalls) = 1
    /\ call.language = S_Auto_Detect
    /\ TranscribeCalls[1].x = None

(***************************************************************************)
(* C12                                                                     *)
(***************************************************************************)

DefaultsResolved == fn = "resolve_defaults" /\ ret.done

\* The configured default of each parameter: the WHISPER_* variable when it
\* is set, else the built-in value.
DefaultModelName == IF arg.env.WHISPER_MODEL = None THEN S_small_en ELSE arg.env.WHISPER_MODEL

DefaultTask == IF arg.env.WHISPER_TASK = None THEN S_transcribe ELSE arg.env.WHISPER_TASK

DefaultDevice == IF arg.env.WHISPER_DEVICE = None THEN S_auto ELSE arg.env.WHISPER_DEVICE

DefaultFormats ==
    CASE arg.env.WHISPER_FORMATS = None -> FmtList(<<S_txt>>)
      [] arg.env.WHISPER_FORMATS = Ex_srt_vtt -> FmtList(<<S_srt, S_vtt>>)
      [] arg.env.WHISPER_FORMATS = <<>> -> FmtList(<< <<>> >>)

\* C12 as stated: for model_name, task, formats and the device preference,
\* a value the caller supplies (anything but None) is the one the job uses,
\* and the configured default is used only for a parameter left at None.
C12_AsStated ==
    DefaultsResolved =>
        /\ ret.v.model_name = IF arg.model_name # None THEN arg.model_name ELSE DefaultModelName
        /\ ret.v.task = IF arg.task # None THEN arg.task ELSE DefaultTask
        /\ ret.v.formats = IF arg.formats # FmtNone THEN arg.formats ELSE DefaultFormats
        /\ ret.v.device = IF arg.device # None THEN arg.device ELSE DefaultDevice

\* C12, amended: for model_name, task, formats and the device preference, a
\* value the caller supplies that is neither None nor empty (the empty
\* string, the empty list) is the one the job uses; the configured default is
\* used for a parameter the caller left at None or gave as empty.
C12_DefaultsAreFallbacks ==
    DefaultsResolved =>
        /\ ret.v.model_name =
              IF arg.model_name \notin {None, <<>>} THEN arg.model_name ELSE DefaultModelName
        /\ ret.v.task = IF arg.task \notin {None, <<>>} THEN arg.task ELSE DefaultTask
        /\ ret.v.formats =
              IF arg.formats.t # "none" /\ arg.formats.v # <<>>
              THEN arg.formats ELSE DefaultFormats
        /\ ret.v.device =
              IF arg.device \notin {None, <<>>} THEN arg.device ELSE DefaultDevice

\* A caller's values were kept although the variables are set to others.
C12_Witness ==
    /\ DefaultsResolved
    /\ arg.env.WHISPER_MODEL = S_tiny /\ arg.env.WHISPER_DEVICE = S_cpu
    /\ arg.model_name = S_tiny /\ arg.task = S_translate
    /\ arg.formats = FmtList(<<S_json>>) /\ arg.device = S_auto
    /\ ret.v.formats = FmtList(<<S_json>>) /\ ret.v.device = S_auto

\* A caller's empty values were replaced by the configured defaults.
C12_WitnessEmpty ==
    /\ DefaultsResolved
    /\ arg.model_name = <<>> /\ arg.formats = FmtList(<<>>)
    /\ ret.v.model_name = S_small_en /\ ret.v.formats = FmtList(<<S_txt>>)

(***************************************************************************)
(* C13                                                                     *)
(***************************************************************************)

TimestampFormatted == fn = "format_timestamp" /\ ret.done

IsDigits(s) == \A i \in 1..Len(s) : \E d \in 1..10 : Digits[d] = s[i]

\* The number a string of decimal digits denotes.
RECURSIVE DigitsValue(_)
DigitsValue(s) ==
    IF s = <<>> THEN 0
    ELSE 10 * DigitsValue(SubSeq(s, 1, Len(s) - 1))
            + ((CHOOSE d \in 1..10 : Digits[d] = s[Len(s)]) - 1)

\* The fields of a string read from its end as H..H:MM:SS<sep>mmm.
TsFields(r) ==
    LET n == Len(r)
    IN  [hh |-> SubSeq(r, 1, n - 10), c1 |-> r[n - 9], mm |-> SubSeq(r, n - 8, n - 7),
         c2 |-> r[n - 6], ss |-> SubSeq(r, n - 5, n - 4), sep |-> r[n - 3],
         ms |-> SubSeq(r, n - 2, n)]

\* What holds of the returned string whatever the number of hours.
TsWellFormed(r, seconds, vtt) ==
    /\ Len(r) >= 12
    /\ LET t == TsFields(r)
       IN  /\ IsDigits(t.hh) /\ IsDigits(t.mm) /\ IsDigits(t.ss) /\ IsDigits(t.ms)
           /\ t.c1 = ":" /\ t.c2 = ":"
           /\ t.sep = (IF vtt THEN "." ELSE ",")
           /\ DigitsValue(t.mm) < 60
           /\ DigitsValue(t.ss) < 60
           /\ DigitsValue(t.hh) * 3600 + DigitsValue(t.mm) * 60 + DigitsValue(t.ss)
                 = seconds.whole
           /\ DigitsValue(t.ms) * FracScale <= seconds.frac * 1000
           /\ (DigitsValue(t.ms) + 1) * FracScale > seconds.frac * 1000

C13_WitnessHundredHours ==
    /\ TimestampFormatted
    /\ arg.seconds = Secs(360000, 0)
    /\ arg.vtt
    /\ ret.v = <<"1", "0", "0", ":", "0", "0", ":", "0", "0", ".", "0", "0", "0">>

(***************************************************************************)
(* C14                                                                     *)
(***************************************************************************)

SrtWritten == fn = "save_srt" /\ ret.done

\* The pieces of a text between the occurrences of a separator character.
PiecesOf(text, sep) ==
    LET cuts == {0, Len(text) + 1} \cup {i \in 1..Len(text) : text[i] = sep}
        cut(k) == CHOOSE i \in cuts : Cardinality({j \in cuts : j < i}) = k
    IN  [k \in 1..(Cardinality(cuts) - 1) |-> SubSeq(text, cut(k - 1) + 1, cut(k) - 1)]

\* The lines of a text: what lies between its line feeds.
LinesOf(text) == PiecesOf(text, "\n")

IndexLine == << <<"1">>, <<"2">>, <<"3">>, <<"4">> >>

\* C14: for n segments the SRT writer emits exactly n blocks, the k-th made
\* of the index line k, the line "start --> end" of the k-th segment in
\* comma-variant timestamps, the k-th segment's trimmed text and a blank
\* line; nothing is skipped, repeated or reordered, and nothing else is in
\* the file.
C14_SrtBlocks ==
    SrtWritten =>
        LET lines == LinesOf(ret.v[1])
            n == Len(arg.segs)
        IN  /\ Len(lines) = 4 * n + 1
            /\ lines[4 * n + 1] = <<>>
            /\ \A k \in 1..n :
                 /\ lines[4 * k - 3] = IndexLine[k]
                 /\ lines[4 * k - 2] =
                       format_timestamp(arg.segs[k].start.t, FALSE) \o S_arrow
                           \o format_timestamp(arg.segs[k].end.t, FALSE)
                 /\ lines[4 * k - 1] = arg.segs[k].word
                 /\ lines[4 * k] = <<>>

\* The one segment from 0 to 1.5 seconds with the text " hi ", written over
\* an older file.
C14_Witness ==
    /\ SrtWritten
    /\ arg.old
    /\ SegmentsOf(arg.segs) = <<Seg(Secs(0, 0), Secs(1, 5000), <<" ", "h", "i", " ", "\n">>)>>
    /\ ret.v[1] = <<"1", "\n">>
                    \o <<"0", "0", ":", "0", "0", ":", "0", "0", ",", "0", "0", "0">>
                    \o S_arrow
                    \o <<"0", "0", ":", "0", "0", ":", "0", "1", ",", "5", "0", "0">>
                    \o <<"\n", "h", "i", "\n", "\n">>

\* Three segments, the second earlier in time than the first.
C14_WitnessThree ==
    /\ SrtWritten
    /\ Len(arg.segs) = 3
    /\ arg.segs[1].start = T_1_5
    /\ arg.segs[2].start = T_0

(***************************************************************************)
(* C15                                                                     *)
(***************************************************************************)

TsvWritten == fn = "save_tsv" /\ ret.done

HeaderRow ==
    <<"s", "t", "a", "r", "t", "\t", "e", "n", "d", "\t",
      "s", "p", "e", "a", "k", "e", "r", "\t", "t", "e", "x", "t">>

\* C15: the TSV writer emits the header row start<TAB>end<TAB>speaker<TAB>text
\* as the first line of the file for every number of segments, zero included
\* (the file is then the header only), followed by exactly one row per
\* segment, in order, whose speaker column is empty.
C15_TsvHeaderAndRows ==
    TsvWritten =>
        LET lines == LinesOf(ret.v[1])
            n == Len(arg.segs)
        IN  /\ Len(lines) = n + 2
            /\ lines[1] = HeaderRow
            /\ lines[n + 2] = <<>>
            /\ n = 0 => ret.v[1] = HeaderRow \o <<"\n">>
            /\ \A k \in 1..n :
                 PiecesOf(lines[k + 1], "\t")
                    = <<arg.segs[k].start.repr, arg.segs[k].end.repr, <<>>, arg.segs[k].word>>

\* No segment, written over an older file: the header only.
C15_Witness ==
    /\ TsvWritten
    /\ arg.segs = <<>>
    /\ arg.old
    /\ ret.v[1] = HeaderRow \o <<"\n">>

\* Two rows, the second ending at 3661.2005.
C15_WitnessRows ==
    /\ TsvWritten
    /\ Len(arg.segs) = 2
    /\ arg.segs[2].end = T_3661_2005
    /\ \E i \in 1..Len(ret.v[1]) :
          SubSeq(ret.v[1], i, i + 9) = <<"\t", "3", "6", "6", "1", ".", "2", "0", "0", "5">>

(***************************************************************************)
(* C16                                                                     *)
(***************************************************************************)

\* C16: save_json called twice with the same segments and the same
\* destination leaves the file with the content it had after the first call:
\* the second write replaces the first and appends nothing to it.
C16_JsonIdempotent ==
    fn = "save_json" =>
        \A i \in 1..Len(ret.v) :
            /\ ret.v[i] = ret.v[1]
            /\ i = Len(ret.v) => fs_files[arg.path] = ret.v[i]

\* The one segment from 0 to 1.5 seconds with the text " hi \n", written
\* twice over an older file.
C16_Witness ==
    /\ fn = "save_json"
    /\ Len(ret.v) = 2
    /\ arg.old
    /\ SegmentsOf(arg.segs) = <<Seg(Secs(0, 0), Secs(1, 5000), <<" ", "h", "i", " ", "\n">>)>>
    /\ ret.v[2] =
        <<"[", "\n", " ", " ", "{", "\n", " ", " ", " ", " ", "\"", "s", "t", "a",
        "r", "t", "\"", ":", " ", "0", ".", "0", ",", "\n", " ", " ", " ", " ",
        "\"", "e", "n", "d", "\"", ":", " ", "1", ".", "5", ",", "\n", " ", " ",
        " ", " ", "\"", "t", "e", "x", "t", "\"", ":", " ", "\"", " ", "h", "i",
        " ", "\\", "n", "\"", "\n", " ", " ", "}", "\n", "]">>

\* No segment, written twice: the empty list both times.
C16_WitnessEmpty ==
    /\ fn = "save_json"
    /\ Len(ret.v) = 2
    /\ arg.segs = <<>>
    /\ ret.v[2] = <<"[", "]">>

(***************************************************************************)
(* C17                                                                     *)
(***************************************************************************)

\* The call of model.transcribe raised: it is the last operation of a job
\* that ended with an error.
InferenceFailed ==
    /\ pc = "raised"
    /\ trace # <<>>
    /\ trace[Len(trace)].op = "transcribe"

\* The messages that name a missing decoder, in some spelling of a keyword.
DecoderMessages == {M_No_FFmpeg, M_WinError_2, M_Cannot_Find, M_File_Specified}

\* C17: when the inference call fails, a message that contains, in any
\* letter case, "ffmpeg", "file specified", "winerror 2" or "cannot find"
\* makes the job fail with the dependency-unavailable RuntimeError that
\* carries the original message; any other error is propagated unchanged;
\* either way the job fails and no format writer is invoked.
C17_InferenceErrors ==
    InferenceFailed =>
        /\ err.orig \in InferErrors
        /\ err.orig \in DecoderMessages =>
              err = Error("RuntimeError", "Audio processing failed", err.orig)
        /\ err.orig \notin DecoderMessages => err = Error("Exception", "transcribe", err.orig)
        /\ result = NoResult
        /\ ~HasOp("makedirs") /\ ~HasOp("save")
        /\ output_files = <<>>
        /\ \E o \in InitialOutputs : fs_dirs = o.dirs /\ fs_files = o.files

\* "[WinError 2]" became the dependency-unavailable error.
C17_Witness ==
    /\ InferenceFailed
    /\ err = Error("RuntimeError", "Audio processing failed", M_WinError_2)

\* "out of memory" was propagated as it was raised.
C17_WitnessPropagated ==
    /\ InferenceFailed
    /\ err = Error("Exception", "transcribe", M_out_of_memory)

(***************************************************************************)
(* C18                                                                     *)
(***************************************************************************)

\* A format writer raised: its call is the last operation of a job that
\* ended with an error.
WriterFailed ==
    /\ pc = "raised"
    /\ trace # <<>>
    /\ trace[Len(trace)].op = "save"

\* The formats whose writers the job has called, in order.
Saves == SelectSeq(trace, LAMBDA e : e.op = "save")

\* C18: when the writer of the k-th requested format fails, the job fails
\* with that write error, the writers called are those of the first k
\* formats and no other, no result is returned, and the output directory and
\* the files of the first k-1 formats are still on disk (completely written,
\* unless the failed writer opened the same file again).
C18_WriterFailure ==
    WriterFailed =>
        LET k == Len(Saves)
        IN  /\ err.type = "OSError" /\ err.tag \in {"open", "write"}
            /\ result = NoResult
            /\ k <= Len(formats.v)
            /\ \A i \in 1..k : Saves[i].x = formats.v[i]
            /\ Len(output_files) = k - 1
            /\ output_dir \in fs_dirs
            /\ \A i \in 1..(k - 1) :
                 LET path == [dir |-> output_dir,
                              name |-> ExpectedBase(call.audio_path) \o <<".">> \o formats.v[i]]
                 IN  /\ output_files[i] = path
                     /\ path \in DOMAIN fs_files
                     /\ formats.v[i] # formats.v[k] =>
                           fs_files[path] = Content(formats.v[i], segments, TRUE)

\* The second of two writers failed after opening its file; the first file
\* is on disk.
C18_Witness ==
    /\ WriterFailed
    /\ formats.v = <<S_srt, S_txt>>
    /\ Len(Saves) = 2
    /\ err.tag = "write"
    /\ Len(output_files) = 1
    /\ output_files[1] \in DOMAIN fs_files
    /\ fs_files[output_files[1]] = Content(S_srt, segments, TRUE)

\* The first of three writers could not open its file.
C18_WitnessFirst ==
    /\ WriterFailed
    /\ Len(formats.v) = 3
    /\ Len(Saves) = 1
    /\ err.tag = "open"
    /\ output_files = <<>>

(***************************************************************************)
(* C19                                                                     *)
(***************************************************************************)

\* outputs/ is as it was when the call was made.
OutputsUntouched ==
    /\ output_dir = NoDir
    /\ output_files = <<>>
    /\ \E o \in InitialOutputs : fs_dirs = o.dirs /\ fs_files = o.files

\* What holds of every state of a job.
C19_Order ==
    /\ \A i \in 1..Len(trace) :
          /\ trace[i].op = "makedirs" => i > 1 /\ trace[i - 1].op = "transcribe"
          /\ trace[i].op = "save" =>
                /\ i > 1 /\ trace[i - 1].op \in {"makedirs", "save"}
                /\ output_dir \in fs_dirs
    /\ ~HasOp("makedirs") => OutputsUntouched

\* C19: the output directory is created strictly after the inference call
\* has succeeded and strictly before the first writer is called, so a job
\* that fails at an earlier step (dependency check, formats, audio file,
\* model load, inference) creates no directory and writes no file: the
\* directories and files change in no other step than the creation of the
\* directory, which follows the inference at once, and the writers, which
\* follow it.
C19_DirAfterInference ==
    /\ []C19_Order
    /\ [][(fs_dirs' # fs_dirs \/ fs_files' # fs_files \/ output_dir' # output_dir)
            => /\ pc \in {"make_output_dir", "save"}
               /\ HasOp("transcribe")
               /\ fs_dirs' # fs_dirs => pc = "make_output_dir" /\ ~HasOp("save")]_vars

\* A job that returned: its directory was made between the inference and the
\* first writer.
C19_Witness ==
    /\ pc = "returned"
    /\ Len(trace) >= 3
    /\ trace[Len(trace) - 2].op = "transcribe"
    /\ trace[Len(trace) - 1].op = "makedirs"
    /\ trace[Len(trace)].op = "save"
    /\ output_dir \in fs_dirs
    /\ fs_dirs # {OldDir}

\* A job whose inference failed: no directory, no file.
C19_WitnessInferenceFailed ==
    /\ InferenceFailed
    /\ fs_dirs = {}
    /\ fs_files = <<>>

\* A job whose model could not be loaded: no directory, no file.
C19_WitnessLoadFailed ==
    /\ pc = "raised"
    /\ err.tag = "load_model"
    /\ OutputsUntouched

(***************************************************************************)
(* C20                                                                     *)
(***************************************************************************)

\* What holds of the segments in every state of a job: each file written
\* holds a rendering of the job's segments, and so does the result.
C20_SameSegments ==
    /\ \A i \in 1..Len(output_files) :
          /\ output_files[i] \in DOMAIN fs_files
          /\ fs_files[output_files[i]].segments = segments
    /\ pc = "returned" => result.segments = segments

\* C20: the format writers never modify the sequence of segments: it is set
\* by the inference call and changes in no other step, whatever writers run
\* and in whatever order, so the segments of the result are the sequence the
\* model produced, elements and order, and every writer of the job was
\* given that sequence.
C20_SegmentsUnchanged ==
    /\ []C20_SameSegments
    /\ [][pc # "transcribe" => segments' = segments]_vars

\* A job that returned two segments, the first with its untrimmed text,
\* after two writers or more.
C20_Witness ==
    /\ pc = "returned"
    /\ Len(output_files) >= 2
    /\ Len(result.segments) = 2
    /\ result.segments[1].text = <<" ", "h", "i", " ">>
    /\ result.segments[2].end = Secs(3661, 2005)

(***************************************************************************)
(* Calls of save_audio_to_inputs by the handlers of the web interface      *)
(***************************************************************************)

\* The most calls the handlers make together.
MaxUploads == 2

\* The temporary paths of the uploaded files.
UploadPaths ==
    { <<"u", "/">> \o n : n \in { <<"a", ".", "m", "p", "3">>, <<"a">>, <<"a", ".", "W", "A", "V">>, <<"a", "_", "1", ".", "m", "p", "3">> } }

\* What the file of handler h's n-th call holds: no two uploads hold the
\* same.

\* What inputs/ may hold before the first call.
InitialInputs ==
    { <<>>,
      (InputPath(<<"a", ".", "m", "p", "3">>) :> <<"old">>),
      (InputPath(<<"a", ".", "m", "p", "3">>) :> <<"old">>)
          @@ (InputPath(<<"a", "_", "1", ".", "m", "p", "3">>) :> <<"old">>) }

InitInputs ==
    /\ InitJob
    /\ InitPure
    /\ ffmpeg_status = "ok"
    /\ cuda_available = FALSE
    /\ environ = NoEnviron
    /\ audio_files = AudioOnDisk
    /\ now = 0
    /\ job_dir = [j \in Jobs |-> NoDir]
    /\ uploads = NoUploads
    /\ fs_files \in InitialInputs
    /\ fs_dirs = IF fs_files = <<>> THEN {} ELSE {S_inputs}

\* Handler h is inside the function.
InFlight(h) == uploads[h].pc \in {"makedirs", "check", "copy"}

RECURSIVE CallsMade(_)
CallsMade(k) == IF k = 0 THEN 0 ELSE uploads[k].calls + CallsMade(k - 1)

\* Lines 32-35: handler h calls the function; with no file it returns at
\* once.  The call remembers what inputs/ held when it was made and whether
\* another call was under way.
BeginSave(h) ==
    /\ ~InFlight(h)
    /\ CallsMade(NHandlers) < MaxUploads
    /\ \/ uploads' = [uploads EXCEPT ![h] =
                         [NoUpload EXCEPT !.pc = "done", !.calls = uploads[h].calls + 1,
                                          !.status = "no audio file",
                                          !.before = fs_files, !.after = fs_files]]
       \/ \E f \in UploadPaths :
            uploads' =
                [g \in 1..NHandlers |->
                    IF g = h
                    THEN [NoUpload EXCEPT !.pc = "makedirs", !.calls = uploads[h].calls + 1,
                                          !.audio_file = f,
                                          !.content = <<"upload", h, uploads[h].calls + 1>>,
                                          !.before = fs_files,
                                          !.overlapped = \E k \in 1..NHandlers : InFlight(k)]
                    ELSE IF InFlight(g) THEN [uploads[g] EXCEPT !.overlapped = TRUE]
                    ELSE uploads[g]]
    /\ UNCHANGED <<jobVars, envVars, fsVars, job_dir, pureVars>>

\* Lines 39-56: inputs/ is made, the file name and the first destination are
\* worked out; an exception of makedirs is turned into the error status.
PrepareDestination(h) ==
    /\ uploads[h].pc = "makedirs"
    /\ \/ LET filename == UploadFilename(uploads[h].audio_file)
          IN  /\ fs_dirs' = fs_dirs \cup {S_inputs}
              /\ uploads' = [uploads EXCEPT ![h] =
                                [@ EXCEPT !.pc = "check",
                                          !.destination_path = InputPath(filename),
                                          !.counter = 1,
                                          !.base_name = PathStem(filename),
                                          !.extension = PathSuffix(filename)]]
       \/ /\ fs_dirs = {}
          /\ fs_dirs' = fs_dirs
          /\ uploads' = [uploads EXCEPT ![h] =
                            [@ EXCEPT !.pc = "done", !.status = "error", !.after = fs_files]]
    /\ UNCHANGED <<jobVars, envVars, now, fs_files, job_dir, pureVars>>

\* Lines 57-60: one test of the while loop, and its body when the name is
\* taken.
CheckDestination(h) ==
    /\ uploads[h].pc = "check"
    /\ LET u == uploads[h]
       IN  uploads' = [uploads EXCEPT ![h] =
               IF DestinationTaken(u.destination_path, fs_files)
               THEN [u EXCEPT !.destination_path =
                                  InputPath(NumberedName(u.base_name, u.counter, u.extension)),
                              !.counter = u.counter + 1]
               ELSE [u EXCEPT !.pc = "copy"]]
    /\ UNCHANGED <<jobVars, envVars, fsVars, job_dir, pureVars>>

\* Lines 63-68: shutil.copy2 writes the destination, whatever is there, and
\* the function returns the saved name; when the copy fails, before or after
\* it opened the destination, the function returns the error status.
CopyAudio(h) ==
    /\ uploads[h].pc = "copy"
    /\ \E outcome \in {"saved", "not opened", "cut short"} :
        /\ fs_files' =
              CASE outcome = "saved" ->
                     (uploads[h].destination_path :> uploads[h].content) @@ fs_files
                [] outcome = "cut short" ->
                     (uploads[h].destination_path :> <<"partial">>) @@ fs_files
                [] OTHER -> fs_files
        /\ uploads' = [uploads EXCEPT ![h] =
                          [@ EXCEPT !.pc = "done",
                                    !.status = IF outcome = "saved" THEN "saved" ELSE "error",
                                    !.after = fs_files']]
    /\ UNCHANGED <<jobVars, envVars, now, fs_dirs, job_dir, pureVars>>

NextInputs ==
    \E h \in 1..NHandlers :
        \/ BeginSave(h)
        \/ PrepareDestination(h)
        \/ CheckDestination(h)
        \/ CopyAudio(h)

SpecInputs == InitInputs /\ [][NextInputs]_vars

(***************************************************************************)
(* C21                                                                     *)
(***************************************************************************)

\* The names of the files a file system holds.
NamesIn(files) == { p.name : p \in DOMAIN files }

Numerals == << <<"1">>, <<"2">>, <<"3">>, <<"4">>, <<"5">>, <<"6">> >>

\* stem.ext, stem_1.ext, stem_2.ext, ...
CandidateNames(stem, ext) ==
    [i \in 1..(Len(Numerals) + 1) |->
        IF i = 1 THEN stem \o ext ELSE stem \o <<"_">> \o Numerals[i - 1] \o ext]

\* The first of the candidate names that is not taken.
FirstFree(cands, taken) ==
    cands[CHOOSE i \in 1..Len(cands) :
            cands[i] \notin taken /\ \A j \in 1..(i - 1) : cands[j] \in taken]

\* The candidate names of an upload when its own name is the first of them.
StatedCandidates(audio_file) ==
    CASE audio_file = <<"u", "/", "a", ".", "m", "p", "3">> -> CandidateNames(<<"a">>, <<".", "m", "p", "3">>)
      [] audio_file = <<"u", "/", "a">> -> CandidateNames(<<"a">>, <<>>)
      [] audio_file = <<"u", "/", "a", ".", "W", "A", "V">> -> CandidateNames(<<"a">>, <<".", "W", "A", "V">>)
      [] audio_file = <<"u", "/", "a", "_", "1", ".", "m", "p", "3">> -> CandidateNames(<<"a", "_", "1">>, <<".", "m", "p", "3">>)

\* The candidate names of an upload when a name with no audio extension is
\* given the extension .wav first.
SavedCandidates(audio_file) ==
    IF audio_file = <<"u", "/", "a">>
    THEN CandidateNames(<<"a">>, <<".", "w", "a", "v">>)
    ELSE StatedCandidates(audio_file)

\* The call of handler h does not write to a file that inputs/ held when the
\* call was made.
SparesEarlierFiles(h) ==
    uploads[h].pc \in {"copy", "done"} =>
        uploads[h].destination_path \notin DOMAIN uploads[h].before

\* Handler h's call has returned the saved status.
Saved(h) == uploads[h].pc = "done" /\ uploads[h].status = "saved"

\* The successful call of handler h added one file, with the uploaded
\* content and the first free of the candidate names, and changed nothing
\* else.
AddedOneFile(h, cands) ==
    LET u == uploads[h]
    IN  /\ u.destination_path \notin DOMAIN u.before
        /\ DOMAIN u.after = DOMAIN u.before \cup {u.destination_path}
        /\ \A p \in DOMAIN u.before : u.after[p] = u.before[p]
        /\ u.after[u.destination_path] = u.content
        /\ u.destination_path = InputPath(FirstFree(cands, NamesIn(u.before)))

\* C21 as stated: save_audio_to_inputs never overwrites a file of inputs/:
\* after any calls, repeated uploads of one name included, every file that
\* was there before a call has its content, and each successful call has
\* added exactly one new file (which therefore still holds what was
\* uploaded), named by the original name or the first free <stem>_<n><ext>,
\* n from 1.
C21_AsStated ==
    \A h \in 1..NHandlers :
        /\ SparesEarlierFiles(h)
        /\ Saved(h) => fs_files[uploads[h].destination_path] = uploads[h].content
        /\ Saved(h) /\ ~uploads[h].overlapped =>
              AddedOneFile(h, StatedCandidates(uploads[h].audio_file))

\* C21, amended: no call writes to a file that inputs/ held when the call
\* was made; and each successful call that ran while no other call was under
\* way left every earlier file with its content and added exactly one new
\* file, named by the upload's name (with .wav added when it has no audio
\* extension) or the first free <stem>_<n><ext>, n from 1.  Two calls under
\* way together may take the same free name, and then the later copy replaces
\* the file of the earlier.
C21_NoOverwrite ==
    \A h \in 1..NHandlers :
        /\ SparesEarlierFiles(h)
        /\ Saved(h) /\ ~uploads[h].overlapped =>
              AddedOneFile(h, SavedCandidates(uploads[h].audio_file))

\* a.mp3 uploaded again, on its own, when a.mp3 and a_1.mp3 are there: it is
\* saved as a_2.mp3.
C21_Witness ==
    \E h \in 1..NHandlers :
        /\ Saved(h)
        /\ ~uploads[h].overlapped
        /\ uploads[h].audio_file = <<"u", "/", "a", ".", "m", "p", "3">>
        /\ {<<"a", ".", "m", "p", "3">>, <<"a", "_", "1", ".", "m", "p", "3">>}
              \subseteq NamesIn(uploads[h].before)
        /\ uploads[h].destination_path = InputPath(<<"a", "_", "2", ".", "m", "p", "3">>)
        /\ fs_files[InputPath(<<"a", ".", "m", "p", "3">>)] = <<"old">>

\* A name with no extension, uploaded on its own, is saved with .wav.
C21_WitnessWav ==
    \E h \in 1..NHandlers :
        /\ Saved(h)
        /\ ~uploads[h].overlapped
        /\ uploads[h].audio_file = <<"u", "/", "a">>
        /\ uploads[h].destination_path = InputPath(<<"a", ".", "w", "a", "v">>)

\* Two calls under way together were both saved under the same name.
C21_WitnessOverlap ==
    /\ Saved(1) /\ Saved(2)
    /\ uploads[1].destination_path = uploads[2].destination_path

====
